---- MODULE Spec2Model ----
(***************************************************************************)
(* Compaction of a layered set of index files (package tsi1):              *)
(* IndexFiles.WriteTo and the merge-iterator constructors it drives.       *)
(*                                                                         *)
(* Byte strings are modelled by TLA+ strings; their lexicographic order is *)
(* given by ByteOrder.  A tag set is a sequence of <<key, value>> pairs    *)
(* sorted by key.  The output is a sequence of chunks, one per Write call  *)
(* that reached the buffered writer, each carrying its length in bytes.    *)
(* Tombstones of tag keys and tag values are passed through by the writer  *)
(* unchanged and are not tracked.                                          *)
(***************************************************************************)
EXTENDS Integers, Sequences, FiniteSets, TLC

\* Largest number of files in a collection.
MaxFiles == 2

\* Bounds of IndexFiles.Stat: the largest file size and the latest
\* modification time (0 is the zero time.Time).
MaxFileSize == 2

MaxModTime == 2

\* Bounds of Retain and Release: the callers that hold the collection at the
\* same time and the largest reference count of a file before they start.
MaxCallers == 2

MaxRefs == 1

\* Bound of the calls of WriteTo made one after the other on a collection.
MaxCalls == 2

-----------------------------------------------------------------------------
(* Byte strings and keys *)

\* The byte strings of the model, in ascending bytes.Compare order.
ByteOrder == <<"a", "b", "cpu", "host", "mem", "region", "x">>

Rank(s) == CHOOSE i \in DOMAIN ByteOrder : ByteOrder[i] = s

BytesLess(a, b) == Rank(a) < Rank(b)

\* Flatten a tag set to the sequence key1, value1, key2, value2, ...
RECURSIVE FlattenTags(_)
FlattenTags(tags) ==
    IF tags = <<>> THEN <<>>
    ELSE <<tags[1][1], tags[1][2]>> \o FlattenTags(Tail(tags))

\* -1, 0 or 1: pairwise by key then value, a proper prefix first.
RECURSIVE CompareTags(_, _)
CompareTags(a, b) ==
    IF a = <<>> /\ b = <<>> THEN 0
    ELSE IF a = <<>> THEN -1
    ELSE IF b = <<>> THEN 1
    ELSE IF a[1][1] # b[1][1] THEN (IF BytesLess(a[1][1], b[1][1]) THEN -1 ELSE 1)
    ELSE IF a[1][2] # b[1][2] THEN (IF BytesLess(a[1][2], b[1][2]) THEN -1 ELSE 1)
    ELSE CompareTags(Tail(a), Tail(b))

\* The series key: the encoding of (name, tags); equal keys are equal pairs.
AppendSeriesKey(name, tags) == <<name>> \o FlattenTags(tags)

\* Order of series elements: by name, then by tags.
SeriesLess(x, y) ==
    \/ BytesLess(x.name, y.name)
    \/ x.name = y.name /\ CompareTags(x.tags, y.tags) = -1

SameSeries(x, y) == x.name = y.name /\ x.tags = y.tags

\* The elements of a finite set as a sequence ascending by Less.
SortSet(S, Less(_, _)) ==
    [i \in 1..Cardinality(S) |->
        CHOOSE x \in S : Cardinality({y \in S : Less(y, x)}) = i - 1]

Range(s) == {s[i] : i \in DOMAIN s}

RECURSIVE SumLen(_)
SumLen(chunks) ==
    IF chunks = <<>> THEN 0 ELSE chunks[1].len + SumLen(Tail(chunks))

-----------------------------------------------------------------------------
(* Index files *)

Series(name, tags) == [name |-> name, tags |-> tags]

SeriesElem(name, tags, deleted) == [name |-> name, tags |-> tags, deleted |-> deleted]

\* The series the files of the model are drawn over.
Universe ==
    { Series("cpu", <<<<"host", "a">>>>),
      Series("cpu", <<<<"host", "a">>, <<"region", "x">>>>),
      Series("mem", <<>>) }

\* The series of the universe that a file may hold as deleted.
Deletable ==
    { Series("cpu", <<<<"host", "a">>>>), Series("mem", <<>>) }

\* A file whose series block and indexes agree: any series of the universe,
\* each live or (if deletable) deleted.
ConsistentFiles ==
    { [series |-> {SeriesElem(s.name, s.tags, s \in SD[2]) : s \in SD[1]},
       indexOnly |-> {}, tombstones |-> {}] :
        SD \in {SD \in (SUBSET Universe) \X (SUBSET Deletable) : SD[2] \subseteq SD[1]} }

\* A damaged file: its measurement and tag indexes name one series that its
\* series block does not hold.
DamagedFiles ==
    { [series |-> {}, indexOnly |-> {s}, tombstones |-> {}] : s \in Universe }

\* A file holding only the tombstone of one measurement.
TombstoneFiles ==
    { [series |-> {}, indexOnly |-> {}, tombstones |-> {m}] : m \in {"cpu", "mem"} }

FileSpace == ConsistentFiles \cup DamagedFiles \cup TombstoneFiles

\* Iterators are sequences; a file that has no data for a query gives Nil.
Nil == [ok |-> FALSE, elems |-> <<>>]

Itr(elems) == [ok |-> TRUE, elems |-> elems]

NilIfEmpty(elems) == IF elems = <<>> THEN Nil ELSE Itr(elems)

\* What the file's measurement and tag indexes list: its series and the
\* index-only entries (never deleted).
Indexed(f) == f.series \cup {SeriesElem(s.name, s.tags, FALSE) : s \in f.indexOnly}

FileSeriesIterator(f) == NilIfEmpty(SortSet(f.series, SeriesLess))

FileMeasurementNames(f) == {e.name : e \in Indexed(f)} \cup f.tombstones

MeasurementLess(x, y) == BytesLess(x.name, y.name)

FileMeasurementIterator(f) ==
    NilIfEmpty(SortSet({[name |-> m, deleted |-> m \in f.tombstones] :
                            m \in FileMeasurementNames(f)}, MeasurementLess))

FileMeasurementSeriesIterator(f, name) ==
    NilIfEmpty(SortSet({e \in Indexed(f) : e.name = name}, SeriesLess))

HasTag(e, key, value) == \E i \in DOMAIN e.tags : e.tags[i] = <<key, value>>

FileTagValueSeriesIterator(f, name, key, value) ==
    NilIfEmpty(SortSet({e \in Indexed(f) : e.name = name /\ HasTag(e, key, value)},
                       SeriesLess))

TagKeys(E) == UNION {{e.tags[i][1] : i \in DOMAIN e.tags} : e \in E}

TagValues(E, key) ==
    UNION {{e.tags[i][2] : i \in {j \in DOMAIN e.tags : e.tags[j][1] = key}} : e \in E}

KeyLess(x, y) == BytesLess(x.key, y.key)

\* Tag keys of one measurement in the file, each with its sorted values.
FileTagKeyIterator(f, name) ==
    LET E == {e \in Indexed(f) : e.name = name}
    IN IF name \notin FileMeasurementNames(f) THEN Nil
       ELSE Itr(SortSet({[key |-> k, values |-> SortSet(TagValues(E, k), BytesLess)] :
                            k \in TagKeys(E)}, KeyLess))

-----------------------------------------------------------------------------
(* Merge iterators: the sorted, deduplicated union of the given iterators. *)
(* Where several iterators hold the same entry, the entry of the last one  *)
(* (the newest file) is the merged entry.                                  *)

\* The entry of the last iterator of itrs that holds one equal to e under Same.
LastOf(itrs, e, Same(_, _)) ==
    LET i == CHOOSE i \in DOMAIN itrs :
                 /\ \E x \in Range(itrs[i]) : Same(x, e)
                 /\ \A j \in DOMAIN itrs :
                        (\E x \in Range(itrs[j]) : Same(x, e)) => j <= i
    IN CHOOSE x \in Range(itrs[i]) : Same(x, e)

AllOf(itrs) == UNION {Range(itrs[i]) : i \in DOMAIN itrs}

MergeSeriesIterators(itrs) ==
    SortSet({LastOf(itrs, e, SameSeries) : e \in AllOf(itrs)}, SeriesLess)

SameName(x, y) == x.name = y.name

MergeMeasurementIterators(itrs) ==
    SortSet({LastOf(itrs, e, SameName) : e \in AllOf(itrs)}, MeasurementLess)

\* A merged tag key carries the merged values of that key.
MergeTagKeyIterators(itrs) ==
    SortSet({[key |-> k,
              values |-> SortSet(UNION {Range(e.values) :
                                          e \in {x \in AllOf(itrs) : x.key = k}},
                                 BytesLess)] :
                k \in {e.key : e \in AllOf(itrs)}}, KeyLess)

-----------------------------------------------------------------------------
(* IndexFiles: the merge-iterator constructors *)

\* The elements of the non-nil iterators of a, in order.
Elems(a) == [i \in DOMAIN a |-> a[i].elems]

\* Mutant of NotNil: a nil iterator is appended like any other.
NotNil_Always(itr) == TRUE

NotNil(itr) == itr.ok

\* The slice a of each constructor: the non-nil iterators of the files of p.
MeasurementIterator_a(p) ==
    SelectSeq([i \in DOMAIN p |-> FileMeasurementIterator(p[i])], NotNil)

MeasurementIterator(p) == MergeMeasurementIterators(Elems(MeasurementIterator_a(p)))

TagKeyIterator_a(p, name) ==
    SelectSeq([i \in DOMAIN p |-> FileTagKeyIterator(p[i], name)], NotNil)

TagKeyIterator(p, name) == MergeTagKeyIterators(Elems(TagKeyIterator_a(p, name)))

\* Mutant of SeriesIterator: the loop starts at the second file.
SeriesIterator_SkipFirst(p) ==
    MergeSeriesIterators(
        Elems(SelectSeq([i \in DOMAIN p |->
                            IF i = 1 THEN Nil ELSE FileSeriesIterator(p[i])], NotNil)))

SeriesIterator_a(p) ==
    SelectSeq([i \in DOMAIN p |-> FileSeriesIterator(p[i])], NotNil)

SeriesIterator(p) == MergeSeriesIterators(Elems(SeriesIterator_a(p)))

\* Mutant of MeasurementSeriesIterator: the name is not passed on, every
\* file gives all its series.
MeasurementSeriesIterator_AllSeries(p, name) ==
    MergeSeriesIterators(
        Elems(SelectSeq([i \in DOMAIN p |-> FileSeriesIterator(p[i])], NotNil)))

MeasurementSeriesIterator_a(p, name) ==
    SelectSeq([i \in DOMAIN p |-> FileMeasurementSeriesIterator(p[i], name)], NotNil)

MeasurementSeriesIterator(p, name) ==
    MergeSeriesIterators(Elems(MeasurementSeriesIterator_a(p, name)))

TagValueSeriesIterator_a(p, name, key, value) ==
    SelectSeq([i \in DOMAIN p |-> FileTagValueSeriesIterator(p[i], name, key, value)],
              NotNil)

TagValueSeriesIterator(p, name, key, value) ==
    MergeSeriesIterators(Elems(TagValueSeriesIterator_a(p, name, key, value)))

\* sort.Sort(byteSlices(names)): names in ascending byte order, duplicates kept.
InsertBytes(s, x) ==
    LET k == Cardinality({i \in DOMAIN s : ~BytesLess(x, s[i])})
    IN  SubSeq(s, 1, k) \o <<x>> \o SubSeq(s, k + 1, Len(s))

RECURSIVE SortBytes(_)
SortBytes(s) ==
    IF s = <<>> THEN <<>>
    ELSE InsertBytes(SortBytes(SubSeq(s, 1, Len(s) - 1)), s[Len(s)])

\* Mutant of MeasurementNames: the loop draws a second element before it
\* appends the first.
MeasurementNames_SkipsFirst(p) ==
    LET itr == MeasurementIterator(p)
    IN  SortBytes([i \in 1..(Len(itr) - 1) |-> itr[i + 1].name])

\* The names the merged measurement iterator yields, copied and sorted.
MeasurementNames(p) ==
    LET itr == MeasurementIterator(p)
    IN  SortBytes([i \in DOMAIN itr |-> itr[i].name])

-----------------------------------------------------------------------------
(* Collaborators of the writer: signature, block encoders, trailer *)

FileSignature == <<"T", "S", "I", "1">>

\* The errors the underlying sink can raise.
Errors == {"EIO", "ENOSPC"}

\* One Write call that reached the buffered writer.
\* block: magic, series, tagset (of measurement name), measurement, trailer;
\* kind: what the call wrote, which tells the shape of data.
Chunk(block, kind, name, len, data) ==
    [block |-> block, kind |-> kind, name |-> name, len |-> len, data |-> data]

\* Series block encoder: n counts the bytes it wrote, entries what it encoded.
\* The first byte of a block is a header byte, so no entry is at offset 0.
NoEncoder == [ok |-> FALSE, n |-> 0, entries |-> <<>>]

NewSeriesBlockEncoder == [ok |-> TRUE, n |-> 0, entries |-> <<>>]

HeaderLen(enc) == IF enc.n = 0 THEN 1 ELSE 0

SeriesEntryLen(e) == Len(AppendSeriesKey(e.name, e.tags)) + 1

\* The encoder after Encode(name, tags, deleted): the entry is written at the
\* encoder's current offset, which becomes the series' identifier.
SeriesEncode(enc, e) ==
    [enc EXCEPT !.n = enc.n + HeaderLen(enc) + SeriesEntryLen(e),
                !.entries = Append(enc.entries,
                    [key |-> AppendSeriesKey(e.name, e.tags), name |-> e.name,
                     tags |-> e.tags, deleted |-> e.deleted,
                     id |-> enc.n + HeaderLen(enc)])]

\* What Close writes: the header if nothing was encoded, and the key index.
SeriesCloseLen(enc) == HeaderLen(enc) + Len(enc.entries) + 1

\* Offset(key): the identifier of the series encoded under key, 0 if none.
Offset(enc, key) ==
    IF \E i \in DOMAIN enc.entries : enc.entries[i].key = key
    THEN enc.entries[CHOOSE i \in DOMAIN enc.entries : enc.entries[i].key = key].id
    ELSE 0

\* Tag block encoder.
NewTagBlockEncoder == [n |-> 0, keys |-> 0]

TagKeyLen(enc) == HeaderLen(enc) + 2

TagValueLen(ids) == Len(ids) + 2

TagCloseLen(enc) == HeaderLen(enc) + enc.keys + 1

\* Measurement block writer: the records added, written by one WriteTo.
RECURSIVE MeasurementBlockLen(_)
MeasurementBlockLen(mms) ==
    IF mms = <<>> THEN 1
    ELSE Len(mms[1].seriesIDs) + 2 + MeasurementBlockLen(Tail(mms))

\* The trailer: two (offset, size) pairs.
ZeroPos == [offset |-> 0, size |-> 0]

ZeroTrailer == [SeriesBlock |-> ZeroPos, MeasurementBlock |-> ZeroPos]

TrailerLen == Len(<<"SeriesBlock.Offset", "SeriesBlock.Size",
                    "MeasurementBlock.Offset", "MeasurementBlock.Size">>)

-----------------------------------------------------------------------------
(* Identifier lookup and ordering used by passes 2 and 3 *)

\* Mutant of LookupIDs: the key buffer is built once, from the first series,
\* and not rebuilt inside the loop.
LookupIDs_StaleKey(enc, elems) ==
    [i \in DOMAIN elems |-> Offset(enc, AppendSeriesKey(elems[1].name, elems[1].tags))]

\* The identifiers of the series of an iterator, in iteration order.
LookupIDs(enc, elems) ==
    [i \in DOMAIN elems |-> Offset(enc, AppendSeriesKey(elems[i].name, elems[i].tags))]

\* Mutant of SortIDs: sorted in descending order.
SortIDs_Descending(ids) ==
    [i \in DOMAIN ids |->
        ids[CHOOSE j \in DOMAIN ids :
                Cardinality({k \in DOMAIN ids :
                    ids[k] > ids[j] \/ (ids[k] = ids[j] /\ k < j)}) = i - 1]]

\* sort.Sort(uint64Slice(ids)): ascending, duplicates kept.
SortIDs(ids) ==
    [i \in DOMAIN ids |->
        ids[CHOOSE j \in DOMAIN ids :
                Cardinality({k \in DOMAIN ids :
                    ids[k] < ids[j] \/ (ids[k] = ids[j] /\ k < j)}) = i - 1]]

\* info.tagSets[name]: the zero position when the name has none.
TagSetPos(tagSets, name) ==
    IF name \in DOMAIN tagSets THEN tagSets[name] ELSE ZeroPos

-----------------------------------------------------------------------------
(* IndexFiles.WriteTo *)

VARIABLES
    files,   \* p: the collection, a sequence of index files
    pc,      \* position of the call
    n,       \* the byte count WriteTo returns
    out,     \* the chunks written to the buffered writer bw, in order
    sunk,    \* bytes a completed bw.Flush has delivered to the underlying sink
    t,       \* the trailer being filled in
    info,    \* indexCompactInfo: enc and tagSets
    senc,    \* writeSeriesBlockTo: its series block encoder
    sitr,    \* writeSeriesBlockTo: the rest of the merged series iterator
    mitr,    \* the rest of the merged measurement iterator of the running pass
    name,    \* writeTagsetTo: the measurement being written
    kitr,    \* writeTagsetTo: the rest of the merged tag key iterator
    vitr,    \* writeTagsetTo: the rest of the tag value iterator of Head(kitr)
    tenc,    \* writeTagsetTo: its tag block encoder
    mw,      \* writeMeasurementBlockTo: the records added to the block writer
    ret,     \* how the call ended: running, ok, error (with err) or panic
    fault,   \* the error the sink raised, "none" if it raised none
    refs,    \* the reference count of every file of the collection
    refs0,   \* the reference counts before the first Retain
    holders, \* Retain, Release: the position of every caller
    fs,      \* Stat: what os.Stat gives for the path of every file
    st,      \* Stat: the position of the call, its info and what it returned
    q,       \* the last iterator or name list built from the collection
    calls    \* the calls of WriteTo made on the collection, the running one included

\* The state of a call of WriteTo.
wvars == <<pc, n, out, sunk, t, info, senc, sitr, mitr, name, kitr, vitr, tenc,
           mw, ret, fault>>

\* What WriteTo never touches.
aux == <<refs, refs0, holders, fs, st, q, calls>>

vars == <<files, pc, n, out, sunk, t, info, senc, sitr, mitr, name, kitr, vitr,
          tenc, mw, ret, fault, refs, refs0, holders, fs, st, q, calls>>

Collections == UNION {[1..k -> FileSpace] : k \in 0..MaxFiles}

\* The state on entry to WriteTo: bw wraps w, info is fresh.
Entry ==
    /\ pc = "magic"
    /\ n = 0
    /\ out = <<>>
    /\ sunk = 0
    /\ t = ZeroTrailer
    /\ info = [enc |-> NoEncoder, tagSets |-> [m \in {} |-> ZeroPos]]
    /\ senc = NoEncoder
    /\ sitr = <<>>
    /\ mitr = <<>>
    /\ name = ""
    /\ kitr = <<>>
    /\ vitr = <<>>
    /\ tenc = NewTagBlockEncoder
    /\ mw = <<>>
    /\ ret = [status |-> "running", err |-> "none"]
    /\ fault = "none"

\* No other method of the collection is running or has run: every file is
\* held once, by the owner of the collection.
Quiet ==
    /\ refs = [i \in DOMAIN files |-> 1]
    /\ refs0 = refs
    /\ holders = <<>>
    /\ fs = <<>>
    /\ st = [pc |-> "idle"]
    /\ q = [kind |-> "none"]
    /\ calls = 1

Init ==
    /\ files \in Collections
    /\ Entry
    /\ Quiet

\* Mutant of ReturnError: the error of the failed write is dropped and the
\* call returns (count, nil).
ReturnError_Swallowed(count) ==
    \E e \in Errors :
        /\ fault' = e
        /\ ret' = [status |-> "ok", err |-> "none"]
        /\ n' = count
        /\ pc' = "done"

\* A write fails: the sink raises e and the call returns (count, e).
ReturnError(count) ==
    \E e \in Errors :
        /\ fault' = e
        /\ ret' = [status |-> "error", err |-> e]
        /\ n' = count
        /\ pc' = "done"

\* Mutant of Panic: the missing identifier is reported as an ordinary error.
Panic_AsError ==
    /\ ret' = [status |-> "error", err |-> "expected series id"]
    /\ pc' = "done"

\* panic(fmt.Sprintf("expected series id: ...")): the call never returns.
Panic ==
    /\ ret' = [status |-> "panic", err |-> "expected series id"]
    /\ pc' = "done"

\* writeTo(w, []byte(FileSignature), &n); then writeSeriesBlockTo starts.
WriteMagic ==
    /\ pc = "magic"
    /\ \/ /\ out' = Append(out, Chunk("magic", "signature", "", Len(FileSignature), FileSignature))
          /\ n' = n + Len(FileSignature)
          /\ t' = [t EXCEPT !.SeriesBlock.offset = n']
          /\ sitr' = SeriesIterator(files)
          /\ senc' = NewSeriesBlockEncoder
          /\ pc' = "series"
          /\ UNCHANGED <<ret, fault>>
       \/ /\ ReturnError(n)
          /\ UNCHANGED <<out, t, sitr, senc>>
    /\ UNCHANGED <<files, aux, sunk, info, mitr, name, kitr, vitr, tenc, mw>>

\* Mutant of EncodeSeries: every series is encoded as not deleted.
EncodeSeries_FlagDropped ==
    /\ pc = "series"
    /\ sitr # <<>>
    /\ \/ LET enc == SeriesEncode(senc, [Head(sitr) EXCEPT !.deleted = FALSE])
          IN /\ senc' = enc
             /\ out' = Append(out, Chunk("series", "entry", "", enc.n - senc.n,
                                         enc.entries[Len(enc.entries)]))
             /\ sitr' = Tail(sitr)
             /\ UNCHANGED <<pc, n, ret, fault>>
       \/ /\ ReturnError(n)
          /\ UNCHANGED <<senc, out, sitr>>
    /\ UNCHANGED <<files, aux, sunk, t, info, mitr, name, kitr, vitr, tenc, mw>>

\* enc.Encode(e.Name(), e.Tags(), e.Deleted()) of the next merged series.
EncodeSeries ==
    /\ pc = "series"
    /\ sitr # <<>>
    /\ \/ LET enc == SeriesEncode(senc, Head(sitr))
          IN /\ senc' = enc
             /\ out' = Append(out, Chunk("series", "entry", "", enc.n - senc.n,
                                         enc.entries[Len(enc.entries)]))
             /\ sitr' = Tail(sitr)
             /\ UNCHANGED <<pc, n, ret, fault>>
       \/ /\ ReturnError(n)
          /\ UNCHANGED <<senc, out, sitr>>
    /\ UNCHANGED <<files, aux, sunk, t, info, mitr, name, kitr, vitr, tenc, mw>>

\* enc.Close(); *n += enc.N(); info.enc = enc; back in WriteTo the size of
\* the series block is set and writeTagsetsTo starts.
CloseSeries ==
    /\ pc = "series"
    /\ sitr = <<>>
    /\ \/ LET enc == [senc EXCEPT !.n = senc.n + SeriesCloseLen(senc)]
          IN /\ senc' = enc
             /\ out' = Append(out, Chunk("series", "index", "", SeriesCloseLen(senc), "index"))
             /\ n' = n + enc.n
             /\ info' = [info EXCEPT !.enc = enc]
             /\ t' = [t EXCEPT !.SeriesBlock.size = n' - t.SeriesBlock.offset]
             /\ mitr' = MeasurementIterator(files)
             /\ pc' = "tagsets"
             /\ UNCHANGED <<ret, fault>>
       \/ /\ ReturnError(n + senc.n)
          /\ UNCHANGED <<senc, out, info, t, mitr>>
    /\ UNCHANGED <<files, aux, sunk, sitr, name, kitr, vitr, tenc, mw>>

\* Mutant of BeginTagset: the tagset written is that of the last measurement
\* left, not of the next one.
BeginTagset_LastFirst ==
    /\ pc = "tagsets"
    /\ mitr # <<>>
    /\ name' = mitr[Len(mitr)].name
    /\ kitr' = TagKeyIterator(files, name')
    /\ tenc' = NewTagBlockEncoder
    /\ pc' = "tagkeys"
    /\ UNCHANGED <<files, aux, n, out, sunk, t, info, senc, sitr, mitr, vitr, mw, ret, fault>>

\* writeTagsetsTo: the next measurement; writeTagsetTo starts on it.
BeginTagset ==
    /\ pc = "tagsets"
    /\ mitr # <<>>
    /\ name' = Head(mitr).name
    /\ kitr' = TagKeyIterator(files, name')
    /\ tenc' = NewTagBlockEncoder
    /\ pc' = "tagkeys"
    /\ UNCHANGED <<files, aux, n, out, sunk, t, info, senc, sitr, mitr, vitr, mw, ret, fault>>

\* enc.EncodeKey(ke.Key(), ke.Deleted()); vitr := ke.TagValueIterator().
EncodeKey ==
    /\ pc = "tagkeys"
    /\ kitr # <<>>
    /\ \/ /\ out' = Append(out, Chunk("tagset", "key", name, TagKeyLen(tenc), Head(kitr).key))
          /\ tenc' = [n |-> tenc.n + TagKeyLen(tenc), keys |-> tenc.keys + 1]
          /\ IF Head(kitr).values = <<>>
             THEN kitr' = Tail(kitr) /\ vitr' = <<>> /\ pc' = "tagkeys"
             ELSE kitr' = kitr /\ vitr' = Head(kitr).values /\ pc' = "tagvalues"
          /\ UNCHANGED <<n, ret, fault>>
       \/ /\ ReturnError(n)
          /\ UNCHANGED <<out, tenc, kitr, vitr>>
    /\ UNCHANGED <<files, aux, sunk, t, info, senc, sitr, mitr, name, mw>>

\* The identifiers handed to EncodeValue for a tag value.
TagValueSeriesIDs(value) ==
    SortIDs(LookupIDs(info.enc,
                      TagValueSeriesIterator(files, name, Head(kitr).key, value)))

\* One tag value: look up its series, sort, enc.EncodeValue.
EncodeValue ==
    /\ pc = "tagvalues"
    /\ vitr # <<>>
    /\ LET ids == TagValueSeriesIDs(Head(vitr))
       IN \/ /\ \E i \in DOMAIN ids : ids[i] = 0
             /\ Panic
             /\ UNCHANGED <<n, out, tenc, kitr, vitr, fault>>
          \/ /\ \A i \in DOMAIN ids : ids[i] # 0
             /\ out' = Append(out, Chunk("tagset", "value", name, TagValueLen(ids),
                                         [key |-> Head(kitr).key, value |-> Head(vitr),
                                          seriesIDs |-> ids]))
             /\ tenc' = [tenc EXCEPT !.n = tenc.n + TagValueLen(ids)]
             /\ IF Tail(vitr) = <<>>
                THEN kitr' = Tail(kitr) /\ vitr' = <<>> /\ pc' = "tagkeys"
                ELSE kitr' = kitr /\ vitr' = Tail(vitr) /\ pc' = "tagvalues"
             /\ UNCHANGED <<n, ret, fault>>
          \/ /\ \A i \in DOMAIN ids : ids[i] # 0
             /\ ReturnError(n)
             /\ UNCHANGED <<out, tenc, kitr, vitr>>
    /\ UNCHANGED <<files, aux, sunk, t, info, senc, sitr, mitr, name, mw>>

\* Mutant of CloseTagset: the offset of the tagset is taken after Close.
CloseTagset_OffsetAfterClose ==
    /\ pc = "tagkeys"
    /\ kitr = <<>>
    /\ \/ /\ out' = Append(out, Chunk("tagset", "index", name, TagCloseLen(tenc), "index"))
          /\ tenc' = [tenc EXCEPT !.n = tenc.n + TagCloseLen(tenc)]
          /\ n' = n + tenc'.n
          /\ info' = [info EXCEPT !.tagSets =
                 [m \in DOMAIN info.tagSets \cup {name} |->
                     IF m = name THEN [offset |-> n', size |-> n' - n]
                     ELSE info.tagSets[m]]]
          /\ mitr' = Tail(mitr)
          /\ pc' = "tagsets"
          /\ UNCHANGED <<ret, fault>>
       \/ /\ ReturnError(n + tenc.n)
          /\ UNCHANGED <<out, tenc, info, mitr>>
    /\ UNCHANGED <<files, aux, sunk, t, senc, sitr, name, kitr, vitr, mw>>

\* pos.offset = *n; enc.Close(); *n += enc.N(); pos.size = *n - pos.offset;
\* info.tagSets[name] = pos.
CloseTagset ==
    /\ pc = "tagkeys"
    /\ kitr = <<>>
    /\ \/ /\ out' = Append(out, Chunk("tagset", "index", name, TagCloseLen(tenc), "index"))
          /\ tenc' = [tenc EXCEPT !.n = tenc.n + TagCloseLen(tenc)]
          /\ n' = n + tenc'.n
          /\ info' = [info EXCEPT !.tagSets =
                 [m \in DOMAIN info.tagSets \cup {name} |->
                     IF m = name THEN [offset |-> n, size |-> n' - n]
                     ELSE info.tagSets[m]]]
          /\ mitr' = Tail(mitr)
          /\ pc' = "tagsets"
          /\ UNCHANGED <<ret, fault>>
       \/ /\ ReturnError(n + tenc.n)
          /\ UNCHANGED <<out, tenc, info, mitr>>
    /\ UNCHANGED <<files, aux, sunk, t, senc, sitr, name, kitr, vitr, mw>>

\* Mutant of EndTagsets: the measurement block offset is taken as the end of
\* the series block, as if no tagset block lay between.
EndTagsets_OffsetAfterSeries ==
    /\ pc = "tagsets"
    /\ mitr = <<>>
    /\ t' = [t EXCEPT !.MeasurementBlock.offset = t.SeriesBlock.offset + t.SeriesBlock.size]
    /\ mw' = <<>>
    /\ mitr' = MeasurementIterator(files)
    /\ pc' = "measurements"
    /\ UNCHANGED <<files, aux, n, out, sunk, info, senc, sitr, name, kitr, vitr, tenc,
                   ret, fault>>

\* writeTagsetsTo returns nil; writeMeasurementBlockTo starts.
EndTagsets ==
    /\ pc = "tagsets"
    /\ mitr = <<>>
    /\ t' = [t EXCEPT !.MeasurementBlock.offset = n]
    /\ mw' = <<>>
    /\ mitr' = MeasurementIterator(files)
    /\ pc' = "measurements"
    /\ UNCHANGED <<files, aux, n, out, sunk, info, senc, sitr, name, kitr, vitr, tenc,
                   ret, fault>>

\* The identifiers handed to mw.Add for a measurement.
MeasurementSeriesIDs(m) ==
    SortIDs(LookupIDs(info.enc, MeasurementSeriesIterator(files, m)))

\* One measurement: look up its series, sort, mw.Add.
AddMeasurement ==
    /\ pc = "measurements"
    /\ mitr # <<>>
    /\ LET m == Head(mitr)
           ids == MeasurementSeriesIDs(m.name)
           pos == TagSetPos(info.tagSets, m.name)
       IN \/ /\ \E i \in DOMAIN ids : ids[i] = 0
             /\ Panic
             /\ UNCHANGED <<mw, mitr>>
          \/ /\ \A i \in DOMAIN ids : ids[i] # 0
             /\ mw' = Append(mw, [name |-> m.name, deleted |-> m.deleted,
                                  offset |-> pos.offset, size |-> pos.size,
                                  seriesIDs |-> ids])
             /\ mitr' = Tail(mitr)
             /\ UNCHANGED <<pc, ret>>
    /\ UNCHANGED <<files, aux, n, out, sunk, t, info, senc, sitr, name, kitr, vitr, tenc,
                   fault>>

\* mw.WriteTo(w); *n += nn; back in WriteTo the size of the block is set.
WriteMeasurementBlock ==
    /\ pc = "measurements"
    /\ mitr = <<>>
    /\ \/ /\ out' = Append(out, Chunk("measurement", "records", "", MeasurementBlockLen(mw), mw))
          /\ n' = n + MeasurementBlockLen(mw)
          /\ t' = [t EXCEPT !.MeasurementBlock.size = n' - t.MeasurementBlock.offset]
          /\ pc' = "trailer"
          /\ UNCHANGED <<ret, fault>>
       \/ /\ ReturnError(n)
          /\ UNCHANGED <<out, t>>
    /\ UNCHANGED <<files, aux, sunk, info, senc, sitr, mitr, name, kitr, vitr, tenc, mw>>

\* Mutant of WriteTrailer: when the write fails the files are released.
WriteTrailer_ReleasesOnError ==
    /\ pc = "trailer"
    /\ \/ /\ out' = Append(out, Chunk("trailer", "trailer", "", TrailerLen, t))
          /\ n' = n + TrailerLen
          /\ pc' = "flush"
          /\ UNCHANGED <<ret, fault, refs>>
       \/ /\ ReturnError(n)
          /\ refs' = [i \in DOMAIN refs |-> refs[i] - 1]
          /\ UNCHANGED out
    /\ UNCHANGED <<files, refs0, holders, fs, st, q, calls, sunk, t, info, senc, sitr, mitr,
                   name, kitr, vitr, tenc, mw>>

\* nn, err := t.WriteTo(w); n += nn.
WriteTrailer ==
    /\ pc = "trailer"
    /\ \/ /\ out' = Append(out, Chunk("trailer", "trailer", "", TrailerLen, t))
          /\ n' = n + TrailerLen
          /\ pc' = "flush"
          /\ UNCHANGED <<ret, fault>>
       \/ /\ ReturnError(n)
          /\ UNCHANGED out
    /\ UNCHANGED <<files, aux, sunk, t, info, senc, sitr, mitr, name, kitr, vitr, tenc, mw>>

\* Mutant of Flush: the call returns success without flushing bw.
Flush_Skipped ==
    /\ pc = "flush"
    /\ ret' = [status |-> "ok", err |-> "none"]
    /\ pc' = "done"
    /\ UNCHANGED <<files, aux, n, out, sunk, t, info, senc, sitr, mitr, name, kitr, vitr,
                   tenc, mw, fault>>

\* bw.Flush(); return n, nil.
Flush ==
    /\ pc = "flush"
    /\ \/ /\ sunk' = SumLen(out)
          /\ ret' = [status |-> "ok", err |-> "none"]
          /\ pc' = "done"
          /\ UNCHANGED <<n, fault>>
       \/ /\ ReturnError(n)
          /\ UNCHANGED sunk
    /\ UNCHANGED <<files, aux, out, t, info, senc, sitr, mitr, name, kitr, vitr, tenc, mw>>

Next ==
    \/ WriteMagic
    \/ EncodeSeries
    \/ CloseSeries
    \/ BeginTagset
    \/ EncodeKey
    \/ EncodeValue
    \/ CloseTagset
    \/ EndTagsets
    \/ AddMeasurement
    \/ WriteMeasurementBlock
    \/ WriteTrailer
    \/ Flush

Spec == Init /\ [][Next]_vars

\* The two files of the worked example: A holds cpu{host=a} and cpu{host=b},
\* B holds cpu{host=b} deleted and mem{host=a}.
FileA ==
    [series |-> {SeriesElem("cpu", <<<<"host", "a">>>>, FALSE),
                 SeriesElem("cpu", <<<<"host", "b">>>>, FALSE)},
     indexOnly |-> {}, tombstones |-> {}]

FileB ==
    [series |-> {SeriesElem("cpu", <<<<"host", "b">>>>, TRUE),
                 SeriesElem("mem", <<<<"host", "a">>>>, FALSE)},
     indexOnly |-> {}, tombstones |-> {}]

ExampleCollections == UNION {[1..k -> {FileA, FileB}] : k \in 0..MaxFiles}

InitExample ==
    /\ files \in ExampleCollections
    /\ Entry
    /\ Quiet

SpecExample == InitExample /\ [][Next]_vars

-----------------------------------------------------------------------------
(* Properties *)

\* What the output and the files hold, read without the writer's operators.

\* The blocks of a chunk sequence, in order, each named once.
RECURSIVE Blocks(_)
Blocks(chunks) ==
    IF chunks = <<>> THEN <<>>
    ELSE LET rest == Blocks(Tail(chunks))
             b == <<chunks[1].block, chunks[1].name>>
         IN IF rest # <<>> /\ rest[1] = b THEN rest ELSE <<b>> \o rest

IsPrefix(a, b) == Len(a) <= Len(b) /\ \A i \in DOMAIN a : a[i] = b[i]

\* The byte position at which chunk i of the output starts.
ChunkStart(i) == SumLen(SubSeq(out, 1, i - 1))

ChunksOf(block) == {i \in DOMAIN out : out[i].block = block}

ChunksOfKind(kind) == {i \in DOMAIN out : out[i].kind = kind}

\* The chunks lying wholly inside the byte range [offset, offset + size).
ChunksIn(pos) ==
    {i \in DOMAIN out : /\ pos.offset <= ChunkStart(i)
                        /\ ChunkStart(i) + out[i].len <= pos.offset + pos.size}

\* The entries of the series block as written.
SeriesBlockEntries == {out[i].data : i \in ChunksOfKind("entry")}

\* The series a file's indexes list, over the whole collection.
IndexedSeries ==
    UNION {{Series(e.name, e.tags) : e \in Indexed(files[i])} : i \in DOMAIN files}

\* The series held by the series block of some file.
StoredSeries ==
    UNION {{Series(e.name, e.tags) : e \in files[i].series} : i \in DOMAIN files}

StrictlyAscending(ids) == \A i, j \in DOMAIN ids : i < j => ids[i] < ids[j]

\* ids are non-zero, each names exactly one written series entry whose key is
\* that of a series of S, and every series of S is named.
ResolveTo(ids, S) ==
    /\ \A i \in DOMAIN ids :
          /\ ids[i] # 0
          /\ \E e \in SeriesBlockEntries :
                /\ {x \in SeriesBlockEntries : x.id = ids[i]} = {e}
                /\ e.key = AppendSeriesKey(e.name, e.tags)
                /\ Series(e.name, e.tags) \in S
    /\ \A s \in S : \E i \in DOMAIN ids : \E e \in SeriesBlockEntries :
          e.id = ids[i] /\ Series(e.name, e.tags) = s

\* C1: the output is magic, series block, one tagset block per merged
\* measurement in iterator order, measurement block, trailer: at any moment
\* the blocks written are a prefix of that order, a block is left only after
\* its closing write, and a successful call has written all of them, the
\* trailer last.
C1_BlockOrder ==
    LET M == MeasurementIterator(files)
        expected == <<<<"magic", "">>, <<"series", "">>>>
                    \o [i \in DOMAIN M |-> <<"tagset", M[i].name>>]
                    \o <<<<"measurement", "">>, <<"trailer", "">>>>
    IN /\ IsPrefix(Blocks(out), expected)
       /\ \A i \in DOMAIN out : i < Len(out) =>
             (<<out[i].block, out[i].name>> # <<out[i + 1].block, out[i + 1].name>>
                 => out[i].kind \in {"signature", "index", "records"})
       /\ ret.status = "ok" => Blocks(out) = expected

C1_Witness ==
    /\ ret.status = "ok"
    /\ Len(MeasurementIterator(files)) = 2
    /\ Len(files) = 2

\* C2: every identifier in a tag value's list or a measurement's list is
\* non-zero and is the identifier of exactly one entry of the written series
\* block, the entry of a series the list was gathered for; every such series
\* is listed.
C2_IdentifierConsistency ==
    /\ \A i \in ChunksOfKind("value") :
          ResolveTo(out[i].data.seriesIDs,
                    {s \in IndexedSeries :
                        /\ s.name = out[i].name
                        /\ HasTag(s, out[i].data.key, out[i].data.value)})
    /\ \A i \in DOMAIN mw :
          ResolveTo(mw[i].seriesIDs, {s \in IndexedSeries : s.name = mw[i].name})

C2_Witness ==
    /\ ret.status = "ok"
    /\ \E i \in ChunksOfKind("value") : Len(out[i].data.seriesIDs) = 2
    /\ \E i \in DOMAIN mw : Len(mw[i].seriesIDs) = 2
    /\ Len(files) = 2
    /\ \E s \in Universe :
          \A i \in DOMAIN files : s \in {Series(e.name, e.tags) : e \in files[i].series}

\* C3: in a successful call the trailer written holds, for the series block,
\* the offset Len(FileSignature) and the bytes the series encoder wrote, and
\* for the measurement block the position after the last tagset block and
\* the bytes the block writer wrote; each range covers exactly the chunks of
\* its block and the measurement block ends where the trailer starts.
C3_TrailerCorrectness ==
    ret.status = "ok" =>
        \E k \in ChunksOf("trailer") :
            LET tr == out[k].data
            IN /\ ChunksOf("trailer") = {k}
               /\ tr.SeriesBlock.offset = Len(FileSignature)
               /\ tr.SeriesBlock.size = senc.n
               /\ ChunksIn(tr.SeriesBlock) = ChunksOf("series")
               /\ \A i \in ChunksOf("tagset") :
                     ChunkStart(i) + out[i].len <= tr.MeasurementBlock.offset
               /\ tr.MeasurementBlock.offset =
                     tr.SeriesBlock.offset + tr.SeriesBlock.size
                     + SumLen(SelectSeq(out, LAMBDA c : c.block = "tagset"))
               /\ tr.MeasurementBlock.size = MeasurementBlockLen(mw)
               /\ ChunksIn(tr.MeasurementBlock) = ChunksOf("measurement")
               /\ tr.MeasurementBlock.offset + tr.MeasurementBlock.size = ChunkStart(k)

C3_Witness ==
    /\ ret.status = "ok"
    /\ ChunksOf("tagset") # {}
    /\ ChunksOfKind("entry") # {}

\* C4: every identifier list handed to EncodeValue and every list handed to
\* mw.Add is strictly ascending, hence without duplicates.
C4_SortedOutput ==
    /\ \A i \in ChunksOfKind("value") : StrictlyAscending(out[i].data.seriesIDs)
    /\ \A i \in DOMAIN mw : StrictlyAscending(mw[i].seriesIDs)

C4_Witness ==
    /\ \E i \in ChunksOfKind("value") : Len(out[i].data.seriesIDs) = 2
    /\ \E i \in DOMAIN mw : Len(mw[i].seriesIDs) = 2
    /\ \E s \in Universe :
          /\ Len(files) = 2
          /\ \A i \in DOMAIN files : s \in {Series(e.name, e.tags) : e \in files[i].series}
\* Some series of S has no entry in the encoder attached by pass 1.
LookupMisses(S) ==
    \E s \in S : \A i \in DOMAIN info.enc.entries :
        Series(info.enc.entries[i].name, info.enc.entries[i].tags) # s

\* The next step of pass 2 or pass 3 looks up a series pass 1 did not encode.
PendingMiss ==
    \/ /\ pc = "tagvalues"
       /\ vitr # <<>>
       /\ LookupMisses({s \in IndexedSeries :
              s.name = name /\ HasTag(s, Head(kitr).key, Head(vitr))})
    \/ /\ pc = "measurements"
       /\ mitr # <<>>
       /\ LookupMisses({s \in IndexedSeries : s.name = Head(mitr).name})

\* C5: when a lookup in pass 2 or 3 finds no identifier the call panics at
\* that step: nothing is encoded or written by it, the status is panic and
\* not an error return, and from then on nothing runs: no trailer, no flush,
\* no success.
C5_FatalAbort ==
    /\ [][PendingMiss =>
            /\ ret' = [status |-> "panic", err |-> "expected series id"]
            /\ pc' = "done"
            /\ UNCHANGED <<out, mw, sunk, n, info, fault>>]_vars
    /\ [](ret.status = "panic" =>
            /\ pc = "done"
            /\ fault = "none"
            /\ ChunksOf("trailer") = {}
            /\ ChunksOf("measurement") = {}
            /\ sunk = 0
            /\ ~ENABLED Next)

C5_Witness ==
    /\ ret.status = "panic"
    /\ ChunksOfKind("value") # {}
    /\ mw # <<>>

\* C6: when a write fails the call returns the error the sink raised, at
\* that step and without writing anything more; nothing runs afterwards, and
\* if the failure came before the trailer phase no trailer was written.
C6_ErrorPropagation ==
    /\ [][(fault = "none" /\ fault' # "none") =>
            /\ ret' = [status |-> "error", err |-> fault']
            /\ pc' = "done"
            /\ UNCHANGED <<out, mw, sunk, info, t>>
            /\ pc \notin {"trailer", "flush"} => ChunksOf("trailer") = {}]_vars
    /\ [](fault # "none" =>
            /\ ret = [status |-> "error", err |-> fault]
            /\ pc = "done"
            /\ ~ENABLED Next)
    /\ [](ret.status = "error" => fault # "none")

C6_Witness ==
    /\ ret.status = "error"
    /\ vitr # <<>>
    /\ ChunksOfKind("value") # {}

\* C7: a call that returned success flushed after the trailer: every byte it
\* counted in n has been delivered to the sink; a call that ended any other
\* way, a failed flush included, delivered nothing by Flush and returned the
\* error raised.
C7_FlushBeforeSuccess ==
    /\ ret.status = "ok" =>
          /\ out # <<>>
          /\ out[Len(out)].block = "trailer"
          /\ n = SumLen(out)
          /\ sunk = n
          /\ fault = "none"
    /\ ret.status # "ok" => sunk = 0
    /\ (ret.status = "error" /\ ChunksOf("trailer") # {}) => ret.err = fault

C7_Witness ==
    /\ ret.status = "ok"
    /\ sunk > Len(FileSignature) + TrailerLen

C7_FlushFailureWitness ==
    /\ ret.status = "error"
    /\ ChunksOf("trailer") # {}
\* The entries the series block encoder took, as (name, tags, deleted).
Encoded(enc) ==
    [i \in DOMAIN enc.entries |->
        SeriesElem(enc.entries[i].name, enc.entries[i].tags, enc.entries[i].deleted)]

\* The series entries written to the output, in order.
WrittenEntries == SelectSeq(out, LAMBDA c : c.kind = "entry")

\* C8: once pass 1 has completed, the series encoded are exactly the series
\* held by some file, in strictly increasing key order (so each once), each
\* with the flag the merged series iterator yields for it, a flag some file
\* holds for that series; and the entries written are the entries encoded.
C8_SeriesBlockComplete ==
    /\ \A i, j \in DOMAIN senc.entries :
          i < j => SeriesLess(senc.entries[i], senc.entries[j])
    /\ {Series(e.name, e.tags) : e \in Range(Encoded(senc))} \subseteq StoredSeries
    /\ info.enc.ok =>
          LET E == Encoded(info.enc)
              M == SeriesIterator(files)
          IN /\ {Series(e.name, e.tags) : e \in Range(E)} = StoredSeries
             /\ E = M
             /\ \A e \in Range(E) : \E i \in DOMAIN files : e \in files[i].series
             /\ [i \in DOMAIN WrittenEntries |->
                    SeriesElem(WrittenEntries[i].data.name, WrittenEntries[i].data.tags,
                               WrittenEntries[i].data.deleted)] = E

C8_Witness ==
    /\ info.enc.ok
    /\ Len(info.enc.entries) = 3
    /\ Len(files) = 2
    /\ \E s \in Universe :
          /\ SeriesElem(s.name, s.tags, TRUE) \in files[1].series
          /\ SeriesElem(s.name, s.tags, FALSE) \in files[2].series

\* The measurement names of all files.
AllMeasurementNames == UNION {FileMeasurementNames(files[i]) : i \in DOMAIN files}

\* C9: the measurement block written has one record per measurement name of
\* any file, in ascending name order; the identifiers of a record are,
\* without repetition, those of the written series entries of that
\* measurement and no others; its deleted flag is the merged flag, a flag
\* some file holds for the measurement.
C9_MeasurementBlockComplete ==
    \A k \in ChunksOf("measurement") :
        LET R == out[k].data
            M == MeasurementIterator(files)
        IN /\ [i \in DOMAIN R |-> R[i].name] = SortSet(AllMeasurementNames, BytesLess)
           /\ \A i \in DOMAIN R :
                 /\ Range(R[i].seriesIDs) =
                       {e.id : e \in {x \in SeriesBlockEntries : x.name = R[i].name}}
                 /\ Len(R[i].seriesIDs) = Cardinality(Range(R[i].seriesIDs))
                 /\ R[i].deleted = M[i].deleted
                 /\ \E j \in DOMAIN files :
                       /\ R[i].name \in FileMeasurementNames(files[j])
                       /\ R[i].deleted = (R[i].name \in files[j].tombstones)

C9_Witness ==
    /\ ret.status = "ok"
    /\ \E k \in ChunksOf("measurement") :
          /\ Len(out[k].data) = 2
          /\ Len(out[k].data[1].seriesIDs) = 2
          /\ Len(out[k].data[2].seriesIDs) = 1
          /\ out[k].data[1].deleted

\* C10: compacting <<FileA, FileB>> gives a series block of exactly
\* cpu{host=a}, cpu{host=b} deleted, mem{host=a}, and a measurement block of
\* exactly cpu with two identifiers and mem with one, each identifier
\* resolving to its series.
C10_TwoFileScenario ==
    (files = <<FileA, FileB>> /\ ret.status = "ok") =>
        /\ [i \in DOMAIN WrittenEntries |->
               SeriesElem(WrittenEntries[i].data.name, WrittenEntries[i].data.tags,
                          WrittenEntries[i].data.deleted)]
              = << SeriesElem("cpu", <<<<"host", "a">>>>, FALSE),
                   SeriesElem("cpu", <<<<"host", "b">>>>, TRUE),
                   SeriesElem("mem", <<<<"host", "a">>>>, FALSE) >>
        /\ \E k \in ChunksOf("measurement") :
              LET R == out[k].data
              IN /\ [i \in DOMAIN R |-> R[i].name] = <<"cpu", "mem">>
                 /\ Len(R[1].seriesIDs) = 2
                 /\ Len(R[2].seriesIDs) = 1
                 /\ ResolveTo(R[1].seriesIDs,
                              {Series("cpu", <<<<"host", "a">>>>),
                               Series("cpu", <<<<"host", "b">>>>)})
                 /\ ResolveTo(R[2].seriesIDs, {Series("mem", <<<<"host", "a">>>>)})

C10_Witness ==
    /\ files = <<FileA, FileB>>
    /\ ret.status = "ok"

-----------------------------------------------------------------------------
(* IndexFiles.Stat *)

\* The errors os.Stat gives other than "file does not exist".
StatErrors == {"EACCES", "EIO"}

\* What os.Stat(f.Path()) gives: (nil, ENOENT), (nil, another error) or a
\* FileInfo with the size and the modification time of the file.
StatOutcomes ==
    {[err |-> "ENOENT", size |-> 0, mod |-> 0]}
        \cup {[err |-> e, size |-> 0, mod |-> 0] : e \in StatErrors}
        \cup {[err |-> "none", size |-> s, mod |-> m] :
                s \in 0..MaxFileSize, m \in 1..MaxModTime}

\* Mutant of IsNotExist: no error counts as "file does not exist".
IsNotExist_Never(fi) == FALSE

\* os.IsNotExist(err)
IsNotExist(fi) == fi.err = "ENOENT"

\* var info IndexFilesInfo
ZeroInfo == [MaxSize |-> 0, Size |-> 0, ModTime |-> 0]

\* The body of the loop for a file that os.Stat found.
Aggregate(sum, fi) ==
    [MaxSize |-> IF fi.size > sum.MaxSize THEN fi.size ELSE sum.MaxSize,
     ModTime |-> IF fi.mod > sum.ModTime THEN fi.mod ELSE sum.ModTime,
     Size    |-> sum.Size + fi.size]

\* The files of a collection of which only the paths matter.
EmptyFile == [series |-> {}, indexOnly |-> {}, tombstones |-> {}]

PathCollections == UNION {[1..k -> {EmptyFile}] : k \in 0..MaxFiles}

\* A call of Stat is at the top of its loop, before the first file.
InitStat ==
    /\ files \in PathCollections
    /\ Entry
    /\ refs = [i \in DOMAIN files |-> 1]
    /\ refs0 = refs
    /\ holders = <<>>
    /\ q = [kind |-> "none"]
    /\ calls = 1
    /\ fs \in [DOMAIN files -> StatOutcomes]
    /\ st = [pc |-> "loop", i |-> 1, info |-> ZeroInfo, seen |-> {},
             ret |-> [nil |-> TRUE, info |-> ZeroInfo, err |-> "none"]]

\* Mutant of StatFile: an error other than ENOENT is remembered and the
\* loop goes on; the call ends when the files are exhausted.
StatFile_KeepsGoing ==
    /\ st.pc = "loop"
    /\ st.i <= Len(files)
    /\ LET fi   == fs[st.i]
           seen == st.seen \cup {st.i}
       IN  IF IsNotExist(fi)
           THEN st' = [st EXCEPT !.i = @ + 1, !.seen = seen]
           ELSE IF fi.err # "none"
           THEN st' = [st EXCEPT !.i = @ + 1, !.seen = seen,
                                 !.ret = [nil |-> TRUE, info |-> ZeroInfo, err |-> fi.err]]
           ELSE st' = [st EXCEPT !.i = @ + 1, !.seen = seen,
                                 !.info = Aggregate(@, fi)]
    /\ UNCHANGED <<files, wvars, calls, refs, refs0, holders, fs, q>>

\* One iteration of the loop: os.Stat of the next file, then skip it, return
\* (nil, err), or add it to info.
StatFile ==
    /\ st.pc = "loop"
    /\ st.i <= Len(files)
    /\ LET fi   == fs[st.i]
           seen == st.seen \cup {st.i}
       IN  IF IsNotExist(fi)
           THEN st' = [st EXCEPT !.i = @ + 1, !.seen = seen]
           ELSE IF fi.err # "none"
           THEN st' = [st EXCEPT !.pc = "done", !.seen = seen,
                                 !.ret = [nil |-> TRUE, info |-> ZeroInfo, err |-> fi.err]]
           ELSE st' = [st EXCEPT !.i = @ + 1, !.seen = seen,
                                 !.info = Aggregate(@, fi)]
    /\ UNCHANGED <<files, wvars, calls, refs, refs0, holders, fs, q>>

\* return &info, nil
StatReturn ==
    /\ st.pc = "loop"
    /\ st.i > Len(files)
    /\ st' = [st EXCEPT !.pc = "done",
                        !.ret = [nil |-> FALSE, info |-> st.info, err |-> "none"]]
    /\ UNCHANGED <<files, wvars, calls, refs, refs0, holders, fs, q>>

NextStat ==
    \/ StatFile
    \/ StatReturn

SpecStat == InitStat /\ [][NextStat]_vars

\* The files os.Stat finds, and those for which it fails otherwise than by
\* ENOENT.
Existing == {i \in DOMAIN fs : fs[i].err = "none"}

Failing == {i \in DOMAIN fs : fs[i].err \notin {"none", "ENOENT"}}

Largest(S) == IF S = {} THEN 0 ELSE CHOOSE x \in S : \A y \in S : y <= x

RECURSIVE TotalSize(_)
TotalSize(S) ==
    IF S = {} THEN 0
    ELSE LET i == CHOOSE j \in S : TRUE IN fs[i].size + TotalSize(S \ {i})

\* C11: when no file fails otherwise than by not existing, Stat returns no
\* error and an info computed over exactly the files that exist: MaxSize is
\* their largest size, Size the sum of their sizes, ModTime their latest
\* modification time; all are zero when no file exists or the collection is
\* empty.
C11_StatSkipsMissing ==
    (st.pc = "done" /\ Failing = {}) =>
        st.ret = [nil  |-> FALSE,
                  err  |-> "none",
                  info |-> [MaxSize |-> Largest({fs[i].size : i \in Existing}),
                            Size    |-> TotalSize(Existing),
                            ModTime |-> Largest({fs[i].mod : i \in Existing})]]

\* Stat has returned for two files of which the first is gone and the second
\* is not empty.
C11_Witness ==
    /\ st.pc = "done"
    /\ Len(fs) = 2
    /\ fs[1].err = "ENOENT"
    /\ fs[2].err = "none"
    /\ fs[2].size > 0
    /\ st.ret.err = "none"
    /\ st.ret.info.Size = fs[2].size

\* C12: when os.Stat fails for some file otherwise than by ENOENT, Stat
\* examines no file after the first such file and returns the error of that
\* file with a nil info, never an aggregate of the files before it.
C12_StatAborts ==
    \A k \in Failing :
        (\A j \in Failing : k <= j) =>
            /\ st.seen \subseteq 1..k
            /\ st.pc = "done" =>
                  /\ st.seen = 1..k
                  /\ st.ret.nil
                  /\ st.ret.err = fs[k].err

\* Stat has returned the error of the first of two files; both fail, with
\* different errors, and the second was never examined.
C12_Witness ==
    /\ st.pc = "done"
    /\ Len(fs) = 2
    /\ fs[1].err \in StatErrors
    /\ fs[2].err \in StatErrors
    /\ fs[1].err # fs[2].err
    /\ st.ret.err = fs[1].err
    /\ st.seen = {1}

-----------------------------------------------------------------------------
(* IndexFiles.Retain and IndexFiles.Release *)

Callers == 1..MaxCallers

\* IndexFile.Retain and IndexFile.Release on the reference count of a file.
FileRetain(count) == count + 1

FileRelease(count) == count - 1

\* Callers pair their calls: each retains the collection, holds it, releases
\* it.  Calls of different callers interleave file by file.
InitRefs ==
    /\ files \in PathCollections
    /\ Entry
    /\ refs0 \in [DOMAIN files -> 0..MaxRefs]
    /\ refs = refs0
    /\ holders = [c \in Callers |-> [op |-> "idle", i |-> 0]]
    /\ fs = <<>>
    /\ st = [pc |-> "idle"]
    /\ q = [kind |-> "none"]
    /\ calls = 1

\* p.Retain() is called.
Retain(c) ==
    /\ holders[c].op = "idle"
    /\ holders' = [holders EXCEPT ![c] = [op |-> "retain", i |-> 1]]
    /\ UNCHANGED <<files, wvars, calls, refs, refs0, fs, st, q>>

\* Mutant of RetainFile: the loop leaves out the last file.
RetainFile_SkipsLast(c) ==
    /\ holders[c].op = "retain"
    /\ holders[c].i <= Len(files)
    /\ refs' = IF holders[c].i < Len(files)
               THEN [refs EXCEPT ![holders[c].i] = FileRetain(@)]
               ELSE refs
    /\ holders' = [holders EXCEPT ![c].i = @ + 1]
    /\ UNCHANGED <<files, wvars, calls, refs0, fs, st, q>>

\* for _, f := range p { f.Retain() }: one iteration.
RetainFile(c) ==
    /\ holders[c].op = "retain"
    /\ holders[c].i <= Len(files)
    /\ refs' = [refs EXCEPT ![holders[c].i] = FileRetain(@)]
    /\ holders' = [holders EXCEPT ![c].i = @ + 1]
    /\ UNCHANGED <<files, wvars, calls, refs0, fs, st, q>>

\* Retain returns; the caller holds the collection.
RetainReturn(c) ==
    /\ holders[c].op = "retain"
    /\ holders[c].i > Len(files)
    /\ holders' = [holders EXCEPT ![c] = [op |-> "held", i |-> 0]]
    /\ UNCHANGED <<files, wvars, calls, refs, refs0, fs, st, q>>

\* p.Release() is called by a caller that holds the collection.
Release(c) ==
    /\ holders[c].op = "held"
    /\ holders' = [holders EXCEPT ![c] = [op |-> "release", i |-> 1]]
    /\ UNCHANGED <<files, wvars, calls, refs, refs0, fs, st, q>>

\* for _, f := range p { f.Release() }: one iteration.
ReleaseFile(c) ==
    /\ holders[c].op = "release"
    /\ holders[c].i <= Len(files)
    /\ refs' = [refs EXCEPT ![holders[c].i] = FileRelease(@)]
    /\ holders' = [holders EXCEPT ![c].i = @ + 1]
    /\ UNCHANGED <<files, wvars, calls, refs0, fs, st, q>>

\* Release returns.
ReleaseReturn(c) ==
    /\ holders[c].op = "release"
    /\ holders[c].i > Len(files)
    /\ holders' = [holders EXCEPT ![c] = [op |-> "idle", i |-> 0]]
    /\ UNCHANGED <<files, wvars, calls, refs, refs0, fs, st, q>>

NextRefs ==
    \/ \E c \in Callers : Retain(c)
    \/ \E c \in Callers : RetainFile(c)
    \/ \E c \in Callers : RetainReturn(c)
    \/ \E c \in Callers : Release(c)
    \/ \E c \in Callers : ReleaseFile(c)
    \/ \E c \in Callers : ReleaseReturn(c)

SpecRefs == InitRefs /\ [][NextRefs]_vars

\* Caller c has retained file i and not yet released it.
Holds(c, i) ==
    \/ holders[c].op = "retain" /\ i < holders[c].i
    \/ holders[c].op = "held"
    \/ holders[c].op = "release" /\ i >= holders[c].i

\* C13: Retain adds exactly one reference to every file and Release removes
\* exactly one: at every point of every interleaving of paired calls the
\* count of a file is its count before the first Retain plus one for every
\* caller that has retained and not yet released it.  So no count is ever
\* below its first value, every count is back at that value when all calls
\* are paired off, and on an empty collection nothing changes.
C13_RetainRelease ==
    /\ DOMAIN refs = DOMAIN files
    /\ \A i \in DOMAIN files :
          /\ refs[i] = refs0[i] + Cardinality({c \in Callers : Holds(c, i)})
          /\ refs[i] >= refs0[i]
    /\ (\A c \in Callers : holders[c].op = "idle") => refs = refs0

\* Two calls interleave on two files: caller 1 has released the first file
\* and not the second, caller 2 has retained the first and not the second.
C13_Witness ==
    /\ Len(files) = 2
    /\ holders[1] = [op |-> "release", i |-> 2]
    /\ holders[2] = [op |-> "retain", i |-> 2]
    /\ refs[1] = refs0[1] + 1
    /\ refs[2] = refs0[2] + 1

-----------------------------------------------------------------------------
(* The constructors and MeasurementNames, called on their own *)

\* Files without damage: any live series of Universe, or one tombstone.
QueryFiles ==
    {[series |-> {SeriesElem(s.name, s.tags, FALSE) : s \in S},
      indexOnly |-> {}, tombstones |-> {}] : S \in SUBSET Universe}
        \cup TombstoneFiles

QueryCollections == UNION {[1..k -> QueryFiles] : k \in 0..MaxFiles}

\* The arguments the constructors are called with.
QueryNames == {"cpu", "mem"}

QueryKeys == {"host", "region"}

QueryValues == {"a", "x"}

\* The caller of the collection either calls one constructor or
\* MeasurementNames, or it calls WriteTo.
InitQuery ==
    /\ files \in QueryCollections
    /\ Entry
    /\ Quiet

\* What a call returned: the slice a handed to the merge function, the
\* elements the returned iterator yields before Next gives nil, the error.
Returned(kind, a, itr) ==
    [kind |-> kind, name |-> "", key |-> "", value |-> "", a |-> a, itr |-> itr,
     err |-> "none"]

CallMeasurementIterator ==
    /\ pc = "magic"
    /\ q.kind = "none"
    /\ q' = Returned("MeasurementIterator", MeasurementIterator_a(files),
                     MeasurementIterator(files))
    /\ UNCHANGED <<files, wvars, calls, refs, refs0, holders, fs, st>>

CallTagKeyIterator ==
    /\ pc = "magic"
    /\ q.kind = "none"
    /\ \E m \in QueryNames :
          q' = [Returned("TagKeyIterator", TagKeyIterator_a(files, m),
                         TagKeyIterator(files, m)) EXCEPT !.name = m]
    /\ UNCHANGED <<files, wvars, calls, refs, refs0, holders, fs, st>>

CallSeriesIterator ==
    /\ pc = "magic"
    /\ q.kind = "none"
    /\ q' = Returned("SeriesIterator", SeriesIterator_a(files), SeriesIterator(files))
    /\ UNCHANGED <<files, wvars, calls, refs, refs0, holders, fs, st>>

CallMeasurementSeriesIterator ==
    /\ pc = "magic"
    /\ q.kind = "none"
    /\ \E m \in QueryNames :
          q' = [Returned("MeasurementSeriesIterator",
                         MeasurementSeriesIterator_a(files, m),
                         MeasurementSeriesIterator(files, m)) EXCEPT !.name = m]
    /\ UNCHANGED <<files, wvars, calls, refs, refs0, holders, fs, st>>

CallTagValueSeriesIterator ==
    /\ pc = "magic"
    /\ q.kind = "none"
    /\ \E m \in QueryNames, k \in QueryKeys, v \in QueryValues :
          q' = [Returned("TagValueSeriesIterator",
                         TagValueSeriesIterator_a(files, m, k, v),
                         TagValueSeriesIterator(files, m, k, v))
                    EXCEPT !.name = m, !.key = k, !.value = v]
    /\ UNCHANGED <<files, wvars, calls, refs, refs0, holders, fs, st>>

\* names := p.MeasurementNames(): a is the slice its MeasurementIterator
\* call built, itr the names returned.
CallMeasurementNames ==
    /\ pc = "magic"
    /\ q.kind = "none"
    /\ q' = Returned("MeasurementNames", MeasurementIterator_a(files),
                     MeasurementNames(files))
    /\ UNCHANGED <<files, wvars, calls, refs, refs0, holders, fs, st>>

\* WriteTo runs when the caller chose it.
WriteToStep ==
    /\ q.kind = "none"
    /\ Next

NextQuery ==
    \/ CallMeasurementIterator
    \/ CallTagKeyIterator
    \/ CallSeriesIterator
    \/ CallMeasurementSeriesIterator
    \/ CallTagValueSeriesIterator
    \/ CallMeasurementNames
    \/ WriteToStep

SpecQuery == InitQuery /\ [][NextQuery]_vars

\* The iterator every file gives for the call q records, nil included.
PerFile ==
    [i \in DOMAIN files |->
        CASE q.kind \in {"MeasurementIterator", "MeasurementNames"} ->
                 FileMeasurementIterator(files[i])
          [] q.kind = "TagKeyIterator" -> FileTagKeyIterator(files[i], q.name)
          [] q.kind = "SeriesIterator" -> FileSeriesIterator(files[i])
          [] q.kind = "MeasurementSeriesIterator" ->
                 FileMeasurementSeriesIterator(files[i], q.name)
          [] q.kind = "TagValueSeriesIterator" ->
                 FileTagValueSeriesIterator(files[i], q.name, q.key, q.value)]

\* a holds exactly the non-nil members of b, in the order of b.
NonNilInOrder(a, b) ==
    \E f \in [DOMAIN a -> DOMAIN b] :
        /\ \A j, k \in DOMAIN a : j < k => f[j] < f[k]
        /\ {f[k] : k \in DOMAIN a} = {i \in DOMAIN b : b[i] # Nil}
        /\ \A k \in DOMAIN a : a[k] = b[f[k]]

\* C14: every constructor hands to the merge function exactly the non-nil
\* iterators of the files, in the order of the collection.  When no file
\* gives one, the returned iterator yields nothing and there is no error:
\* MeasurementNames then returns no name, and WriteTo writes no series entry
\* (no tagset, no measurement record), never panics, and fails only when the
\* sink does.
C14_ConstructorsSkipNil ==
    /\ q.kind # "none" =>
          /\ NonNilInOrder(q.a, PerFile)
          /\ q.err = "none"
          /\ q.a = <<>> => q.itr = <<>>
    /\ SeriesIterator_a(files) = <<>> =>
          /\ ChunksOfKind("entry") = {}
          /\ ret.status # "panic"
          /\ ret.status = "error" => fault # "none"
    /\ MeasurementIterator_a(files) = <<>> =>
          /\ ChunksOf("tagset") = {}
          /\ mw = <<>>

\* A constructor was called with a name, a key and a value on two files of
\* which the first has no such series and the second has one: a holds the
\* iterator of the second file only.
C14_Witness ==
    /\ q.kind = "TagValueSeriesIterator"
    /\ Len(files) = 2
    /\ PerFile[1] = Nil
    /\ PerFile[2] # Nil
    /\ q.a = <<PerFile[2]>>
    /\ q.itr # <<>>

\* An empty merged iterator consumed by WriteTo: no file gives a series
\* iterator, and the call wrote its series block and went on to a successful end.
C14_EmptyWitness ==
    /\ Len(files) = 2
    /\ SeriesIterator_a(files) = <<>>
    /\ MeasurementIterator_a(files) # <<>>
    /\ ret.status = "ok"

\* C15: MeasurementNames returns every measurement name some file holds,
\* each once however many files hold it, in ascending byte order.
C15_MeasurementNames ==
    q.kind = "MeasurementNames" =>
        /\ Range(q.itr) = AllMeasurementNames
        /\ Len(q.itr) = Cardinality(AllMeasurementNames)
        /\ \A j, k \in DOMAIN q.itr : j < k => BytesLess(q.itr[j], q.itr[k])

\* MeasurementNames returned <<"cpu", "mem">> for two files that both hold
\* cpu, the first of which holds mem too.
C15_Witness ==
    /\ q.kind = "MeasurementNames"
    /\ Len(files) = 2
    /\ FileMeasurementNames(files[1]) = {"cpu", "mem"}
    /\ FileMeasurementNames(files[2]) = {"cpu"}
    /\ q.itr = <<"cpu", "mem">>

-----------------------------------------------------------------------------
(* WriteTo and its inputs *)

\* WriteTo runs on files that other holders have retained any number of
\* times; some collections hold a damaged file, on which the call panics.
FrameCollections ==
    UNION {[1..k -> {FileA, FileB} \cup DamagedFiles] : k \in 0..MaxFiles}

InitFrame ==
    /\ files \in FrameCollections
    /\ Entry
    /\ refs0 \in [DOMAIN files -> 0..MaxRefs]
    /\ refs = refs0
    /\ holders = <<>>
    /\ fs = <<>>
    /\ st = [pc |-> "idle"]
    /\ q = [kind |-> "none"]
    /\ calls = 1

SpecFrame == InitFrame /\ [][Next]_vars

\* C16: no step of WriteTo, whether the call goes on, returns success,
\* returns an error or panics, changes the collection (its files, their
\* order, their content) or the reference count of a file.
C16_InputsReadOnly == [][files' = files /\ refs' = refs]_vars

\* A call on two files with different reference counts has ended, by an
\* error or by a panic, after it wrote series entries; the files and the
\* counts are those the call started with.
C16_Witness ==
    /\ Len(files) = 2
    /\ refs0[1] # refs0[2]
    /\ ret.status \in {"error", "panic"}
    /\ ChunksOfKind("entry") # {}
    /\ refs = refs0

-----------------------------------------------------------------------------
(* Tagset positions *)

\* The chunks of the tagset block of measurement m, in the order written.
TagsetChunks(m) == {i \in ChunksOf("tagset") : out[i].name = m}

MergedMeasurementNames ==
    LET itr == MeasurementIterator(files) IN [k \in DOMAIN itr |-> itr[k].name]

\* C17: every record of the measurement block carries the byte range of the
\* tagset block of its own measurement: the range starts where the first
\* chunk of that tagset block starts, holds exactly the chunks of that block
\* and is as long as they are together; it is never empty and never at
\* offset 0.  The records come in merged measurement order, the first range
\* starts at the end of the series block, each next range starts where the
\* one before ends, and the last ends at the offset of the measurement block.
C17_TagsetPositions ==
    /\ IsPrefix([k \in DOMAIN mw |-> mw[k].name], MergedMeasurementNames)
    /\ \A k \in DOMAIN mw :
          LET r   == mw[k]
              pos == [offset |-> r.offset, size |-> r.size]
          IN  /\ r.offset # 0
              /\ r.size # 0
              /\ TagsetChunks(r.name) # {}
              /\ ChunksIn(pos) = TagsetChunks(r.name)
              /\ \E i \in TagsetChunks(r.name) : ChunkStart(i) = r.offset
              /\ r.size = SumLen(SelectSeq(out, LAMBDA c :
                                    c.block = "tagset" /\ c.name = r.name))
              /\ r.offset = IF k = 1
                            THEN t.SeriesBlock.offset + t.SeriesBlock.size
                            ELSE mw[k - 1].offset + mw[k - 1].size
    /\ (mw # <<>> /\ Len(mw) = Len(MergedMeasurementNames)) =>
          mw[Len(mw)].offset + mw[Len(mw)].size = t.MeasurementBlock.offset

\* A successful call recorded two measurements; the tagset block of the
\* second has tag values, and starts where that of the first ends.
C17_Witness ==
    /\ ret.status = "ok"
    /\ Len(mw) = 2
    /\ mw[2].offset = mw[1].offset + mw[1].size
    /\ mw[1].offset > Len(FileSignature)
    /\ \E i \in TagsetChunks(mw[1].name) : out[i].kind = "value"

-----------------------------------------------------------------------------
(* Calls of WriteTo one after the other *)

InitCalls ==
    /\ files \in FrameCollections
    /\ Entry
    /\ Quiet

\* Mutant of WriteToAgain: the compaction context of the call before is
\* used again.
WriteToAgain_ReusesInfo ==
    /\ pc = "done"
    /\ ret.status \in {"ok", "error"}
    /\ calls < MaxCalls
    /\ calls' = calls + 1
    /\ pc' = "magic"
    /\ n' = 0
    /\ out' = <<>>
    /\ sunk' = 0
    /\ t' = ZeroTrailer
    /\ senc' = NoEncoder
    /\ sitr' = <<>>
    /\ mitr' = <<>>
    /\ name' = ""
    /\ kitr' = <<>>
    /\ vitr' = <<>>
    /\ tenc' = NewTagBlockEncoder
    /\ mw' = <<>>
    /\ ret' = [status |-> "running", err |-> "none"]
    /\ fault' = "none"
    /\ UNCHANGED <<files, info, refs, refs0, holders, fs, st, q>>

\* After a call that returned, WriteTo is called again, on a new writer:
\* n, t, bw and info are locals of the new call.
WriteToAgain ==
    /\ pc = "done"
    /\ ret.status \in {"ok", "error"}
    /\ calls < MaxCalls
    /\ calls' = calls + 1
    /\ pc' = "magic"
    /\ n' = 0
    /\ out' = <<>>
    /\ sunk' = 0
    /\ t' = ZeroTrailer
    /\ info' = [enc |-> NoEncoder, tagSets |-> [m \in {} |-> ZeroPos]]
    /\ senc' = NoEncoder
    /\ sitr' = <<>>
    /\ mitr' = <<>>
    /\ name' = ""
    /\ kitr' = <<>>
    /\ vitr' = <<>>
    /\ tenc' = NewTagBlockEncoder
    /\ mw' = <<>>
    /\ ret' = [status |-> "running", err |-> "none"]
    /\ fault' = "none"
    /\ UNCHANGED <<files, refs, refs0, holders, fs, st, q>>

NextCalls ==
    \/ Next
    \/ WriteToAgain

SpecCalls == InitCalls /\ [][NextCalls]_vars

\* Pass 1 is complete: every merged series is encoded, Close has written the
\* index of the series block, the encoder is attached to the context.
PassOneComplete ==
    /\ info.enc.ok
    /\ Encoded(info.enc) = SeriesIterator(files)
    /\ \E i \in ChunksOf("series") : out[i].kind = "index"

\* Pass 2 is complete: the context holds a position for every merged
\* measurement, whose tagset block is closed.
PassTwoComplete ==
    /\ DOMAIN info.tagSets = Range(MergedMeasurementNames)
    /\ \A m \in DOMAIN info.tagSets :
          \E i \in TagsetChunks(m) : out[i].kind = "index"

\* C18: identifiers are looked up (for a tag value in pass 2, for a
\* measurement in pass 3) only when pass 1 is complete, and a measurement is
\* added to the measurement block only when pass 2 is complete.  The context
\* belongs to one call: every call starts with an empty one, and what the
\* context holds was put there by the running call.
C18_PhaseDependency ==
    /\ (pc \in {"tagvalues", "measurements"} \/ ChunksOfKind("value") # {} \/ mw # <<>>)
          => PassOneComplete
    /\ (pc = "measurements" \/ mw # <<>>) => PassTwoComplete
    /\ pc \in {"magic", "series"} =>
          info = [enc |-> NoEncoder, tagSets |-> [m \in {} |-> ZeroPos]]
    /\ info.enc.ok => info.enc = senc /\ PassOneComplete
    /\ \A m \in DOMAIN info.tagSets :
          \E i \in TagsetChunks(m) : out[i].kind = "index"

\* The second call on a collection is in pass 3 and has added a measurement
\* whose identifiers it looked up.
C18_Witness ==
    /\ calls = 2
    /\ pc = "measurements"
    /\ mw # <<>>
    /\ mw[1].seriesIDs # <<>>
    /\ Len(MergedMeasurementNames) = 2

-----------------------------------------------------------------------------
(* The byte count *)

\* C19: whenever WriteTo has returned, with success or with the error of any
\* phase, the count n it returns is the number of bytes the call has written
\* to the buffered output: all five parts on success, and after an error in
\* the middle of a block also the bytes the encoder of that block had
\* already written.
C19_ByteCount == ret.status \in {"ok", "error"} => n = SumLen(out)

=============================================================================
